---- MODULE Spec2Model ----
(***************************************************************************)
(* A model of the Key class of sotez (src/src/key.ts): the asynchronous    *)
(* initializer that parses, decodes, decrypts and derives key material,    *)
(* the accessors publicKey / secretKey / publicKeyHash, the ledger fields  *)
(* and sign / verify.                                                      *)
(*                                                                         *)
(* JavaScript values are represented as follows.                           *)
(*   - undefined is the empty tuple; a defined value v is the tuple <<v>>. *)
(*   - a plain string (passphrase, email, hex text) is a sequence of       *)
(*     one-character strings.                                              *)
(*   - a base58check string (credential, encoded key, encoded signature)   *)
(*     is a record [head, len, ok, bytes]: its leading characters, its     *)
(*     total length, whether its checksum verifies, and the payload that   *)
(*     follows the prefix bytes.                                           *)
(*   - a byte buffer is a sequence of chunks [src, from, to]: the bytes    *)
(*     from..to-1 of the byte source src.  Sources are literal bytes, raw  *)
(*     input bytes, and the outputs of the cryptographic primitives.       *)
(***************************************************************************)
EXTENDS Integers, Sequences, FiniteSets, TLC

(***************************************************************************)
(* Bounds of the model.                                                    *)
(***************************************************************************)
MaxPassLen == 1     \* passphrases have at most this many characters
MaxMsgBytes == 1    \* hex messages encode at most this many bytes

(***************************************************************************)
(* Program constants.                                                      *)
(***************************************************************************)
SeedBytes == 32          \* key.slice(0, 32), seed.slice(0, 32), key.slice(32)
SecretKeyBytes == 64     \* key.length === 64
SaltBytes == 8           \* key.slice(0, 8), key.slice(8)
NonceBytes == 24         \* new Uint8Array(24)
FundraiserIterations == 2048
FundraiserKeyLen == 64
EncryptionIterations == 32768
EncryptionKeyLen == 32
SignHashLen == 32        \* crypto_generichash(32, bb)
PkhHashLen == 20         \* crypto_generichash(20, this._publicKey)
DefaultLedgerCurve == 0  \* this._ledgerCurve = 0x00
ValidKeyLengths == {54, 55, 88, 98}
SupportedCurves == {<<"s", "p">>, <<"p", "2">>, <<"e", "d">>}
KeyTags == {<<"p", "k">>, <<"s", "k">>}
DefaultLedgerPath == "44'/1729'/0'/0'"

(***************************************************************************)
(* Primitive provider constants (libsodium, secp256k1).                    *)
(***************************************************************************)
MacBytes == 16           \* crypto_secretbox_MACBYTES
EdPublicKeyBytes == 32   \* crypto_sign_PUBLICKEYBYTES
EdSignatureBytes == 64   \* crypto_sign_BYTES
SpPublicKeyBytes == 33   \* compressed secp256k1 point
ChecksumBytes == 4       \* base58check checksum

Undefined == <<>>
Some(v) == <<v>>

(***************************************************************************)
(* Byte buffers.                                                           *)
(***************************************************************************)
Chunk(s, n) == [src |-> s, from |-> 0, to |-> n]
Whole(s, n) == <<Chunk(s, n)>>

RECURSIVE BufLen(_)
BufLen(b) ==
  IF b = <<>> THEN 0 ELSE (b[1].to - b[1].from) + BufLen(Tail(b))

RECURSIVE Drop(_, _)
Drop(b, n) ==
  IF n <= 0 \/ b = <<>> THEN b
  ELSE LET c == b[1]
           l == c.to - c.from
       IN  IF n >= l THEN Drop(Tail(b), n - l)
           ELSE <<[c EXCEPT !.from = c.from + n]>> \o Tail(b)

RECURSIVE Take(_, _)
Take(b, n) ==
  IF n <= 0 \/ b = <<>> THEN <<>>
  ELSE LET c == b[1]
           l == c.to - c.from
       IN  IF n >= l THEN <<c>> \o Take(Tail(b), n - l)
           ELSE <<[c EXCEPT !.to = c.from + n]>>

\* Uint8Array.prototype.slice(start, end) and slice(start), 0 <= start.
slice(b, start, end) == Take(Drop(b, start), end - start)
sliceFrom(b, start) == Drop(b, start)

\* Literal bytes.
Lit(bytes) == IF bytes = <<>> THEN <<>> ELSE Whole([t |-> "lit", bytes |-> bytes], Len(bytes))
IsLit(c) == c.src.t = "lit"
LitBytes(c) == SubSeq(c.src.bytes, c.from + 1, c.to)

\* Adjacent literal chunks denote the same bytes as one literal chunk.
RECURSIVE Norm(_)
Norm(b) ==
  IF b = <<>> THEN <<>>
  ELSE IF ~IsLit(b[1]) THEN <<b[1]>> \o Norm(Tail(b))
  ELSE LET rest == Norm(Tail(b))
       IN  IF rest # <<>> /\ IsLit(rest[1])
             THEN Lit(LitBytes(b[1]) \o LitBytes(rest[1])) \o Tail(rest)
             ELSE Lit(LitBytes(b[1])) \o rest

(***************************************************************************)
(* Codec (./utility and ./constants).                                      *)
(***************************************************************************)
HexDigits == {"0", "a"}
HexVal(d) == IF d = "0" THEN 0 ELSE 10

RECURSIVE HexPairs(_)
HexPairs(h) ==
  IF Len(h) < 2 THEN <<>>
  ELSE <<16 * HexVal(h[1]) + HexVal(h[2])>> \o HexPairs(SubSeq(h, 3, Len(h)))

hex2buf(hex) == Lit(HexPairs(hex))
buf2hex(buf) == [t |-> "hex", of |-> buf]
mergebuf(b1, b2) == Norm(b1 \o b2)

\* The prefix table: tag -> number of prefix bytes.
prefix ==
  [tag \in {<<"e","d","p","k">>, <<"s","p","p","k">>, <<"p","2","p","k">>,
            <<"e","d","s","k">>, <<"s","p","s","k">>, <<"p","2","s","k">>,
            <<"e","d","e","s","k">>, <<"s","p","e","s","k">>, <<"p","2","e","s","k">>,
            <<"e","d","s","i","g">>, <<"s","i","g">>,
            <<"t","z","1">>, <<"t","z","2">>, <<"t","z","3">>} |->
     IF tag \in {<<"s","i","g">>, <<"t","z","1">>, <<"t","z","2">>, <<"t","z","3">>} THEN 3
     ELSE IF Len(tag) = 5 THEN 5 ELSE 4]

\* prefix[name]: undefined for a name the table does not hold.
prefixOf(name) ==
  IF name \in DOMAIN prefix THEN Some([tag |-> name, n |-> prefix[name]]) ELSE Undefined

\* Length of the base58 text of n bytes under the table's prefixes.
Base58Len(n) == (n * 1365) \div 1000

\* Results of operations that may throw.
Ok(v) == [ok |-> TRUE, value |-> Some(v), error |-> "none"]
Err(kind) == [ok |-> FALSE, value |-> Undefined, error |-> kind]

b58cencode(payload, pfx) ==
  IF payload = Undefined \/ pfx = Undefined THEN Err("TypeError")
  ELSE Ok([head |-> pfx[1].tag,
           len |-> Base58Len(pfx[1].n + BufLen(payload[1]) + ChecksumBytes),
           ok |-> TRUE,
           bytes |-> payload[1]])

IsPrefixOf(p, s) == Len(p) <= Len(s) /\ SubSeq(s, 1, Len(p)) = p

b58cdecode(enc, pfx) ==
  IF pfx = Undefined THEN Err("TypeError")
  ELSE IF ~enc.ok \/ ~IsPrefixOf(pfx[1].tag, enc.head) THEN Err("DecodeError")
  ELSE Ok(enc.bytes)

\* String.prototype.substr / substring / slice on the leading characters.
strSlice(s, start, end) ==
  LET e == IF end < s.len THEN end ELSE s.len
  IN  [i \in 1..(IF e > start THEN e - start ELSE 0) |->
         IF start + i <= Len(s.head) THEN s.head[start + i] ELSE "?"]

\* Unicode NFKD of a plain string: precomposed characters decompose.
RECURSIVE normalizeNFKD(_)
normalizeNFKD(s) ==
  IF s = <<>> THEN <<>>
  ELSE (IF s[1] = "e-acute" THEN <<"e", "combining-acute">> ELSE <<s[1]>>)
       \o normalizeNFKD(Tail(s))

\* TextEncoder / TextDecoder round trip of a plain string.
textEncode(s) == [t |-> "utf8", of |-> s]
textDecode(u) == u.of

(***************************************************************************)
(* Primitive provider (libsodium-wrappers, pbkdf2, secp256k1).             *)
(***************************************************************************)
EdPub(seed) == Whole([t |-> "edpub", seed |-> seed], EdPublicKeyBytes)

crypto_sign_seed_keypair(seed) ==
  IF seed = Undefined \/ BufLen(seed[1]) # SeedBytes THEN Err("PrimitiveError")
  ELSE Ok([publicKey |-> EdPub(seed[1]), privateKey |-> seed[1] \o EdPub(seed[1])])

publicKeyCreate(sk) ==
  IF BufLen(sk) # SeedBytes THEN Err("PrimitiveError")
  ELSE Ok(Whole([t |-> "sppub", sk |-> sk], SpPublicKeyBytes))

pbkdf2Mnemonic(mnemonic, salt, iterations, keylen) ==
  Whole([t |-> "pbkdf2m", mnemonic |-> mnemonic, saltStr |-> salt,
         iterations |-> iterations, digest |-> "sha512"], keylen)

pbkdf2Sync(password, salt, iterations, keylen) ==
  Whole([t |-> "pbkdf2", password |-> password, salt |-> salt,
         iterations |-> iterations, digest |-> "sha512"], keylen)

Zeros(n) == Whole([t |-> "zeros"], n)

\* crypto_secretbox_easy, the inverse of what initialize opens.
SecretBox(plain, nonce, k) ==
  Whole([t |-> "secretbox", plain |-> plain, nonce |-> nonce, key |-> k],
        MacBytes + BufLen(plain))

crypto_secretbox_open_easy(cipher, nonce, k) ==
  IF /\ Len(cipher) = 1
     /\ cipher[1].src.t = "secretbox"
     /\ cipher[1].from = 0
     /\ cipher[1].to = MacBytes + BufLen(cipher[1].src.plain)
     /\ cipher[1].src.nonce = nonce
     /\ cipher[1].src.key = k
  THEN Ok(cipher[1].src.plain)
  ELSE Err("DecryptionFailed")

crypto_generichash(n, input) ==
  IF input = Undefined THEN Err("PrimitiveError")
  ELSE Ok(Whole([t |-> "blake2b", outlen |-> n, input |-> input[1]], n))

crypto_sign_detached(m, sk) ==
  IF sk = Undefined \/ BufLen(sk[1]) # SecretKeyBytes THEN Err("PrimitiveError")
  ELSE Ok(Whole([t |-> "ed25519sig", m |-> m, sk |-> sk[1]], EdSignatureBytes))

\* libsodium converts a string argument to its UTF-8 bytes.
from_string(s) == Whole([t |-> "utf8str", str |-> s], s.len)

crypto_sign_verify_detached(sig, m, pk) ==
  IF BufLen(sig) # EdSignatureBytes \/ BufLen(pk) # EdPublicKeyBytes
    THEN Err("PrimitiveError")
  ELSE Ok(/\ Len(sig) = 1
          /\ sig[1].src.t = "ed25519sig"
          /\ sig[1].from = 0
          /\ sig[1].src.m = m
          /\ sliceFrom(sig[1].src.sk, SeedBytes) = pk
          /\ EdPub(slice(sig[1].src.sk, 0, SeedBytes)) = pk)

(***************************************************************************)
(* Inputs.                                                                 *)
(***************************************************************************)
ED == <<"e", "d">>
SP == <<"s", "p">>
P2 == <<"p", "2">>
PK == <<"p", "k">>
SK == <<"s", "k">>

Raw(id, n) == Whole([t |-> "raw", id |-> id], n)

RECURSIVE Repeat(_, _)
Repeat(c, n) == IF n = 0 THEN <<>> ELSE <<c>> \o Repeat(c, n - 1)

\* Passphrase and email arguments: undefined, empty or a non-empty string.
PassStrings == {Repeat("a", n) : n \in 0..MaxPassLen}
Passphrases == {Undefined} \cup {Some(p) : p \in PassStrings}
Emails == {Undefined, Some(<<>>), Some(<<"e-acute", "@">>)}

\* Encrypted credentials are sealed under the passphrase "a" or under a
\* passphrase the caller never supplies.
CredentialSalt == Raw("salt", SaltBytes)

Sealed(plain, pass) ==
  CredentialSalt \o
  SecretBox(plain, Zeros(NonceBytes),
            pbkdf2Sync(pass, CredentialSalt, EncryptionIterations, EncryptionKeyLen))

\* Number of prefix bytes that produce a given head.
HeadBytes(h) == IF Len(h) = 5 THEN 5 ELSE IF Len(h) = 3 THEN 3 ELSE 4

\* A checksum-valid string has the length its bytes encode to.
Encoded(h, b) ==
  [head |-> h, len |-> Base58Len(HeadBytes(h) + BufLen(b) + ChecksumBytes),
   ok |-> TRUE, bytes |-> b]

\* A string whose checksum does not verify.
Corrupt(h, l) == [head |-> h, len |-> l, ok |-> FALSE, bytes |-> <<>>]

PlainKeys ==
  {Encoded(c \o PK, b) : c \in SupportedCurves, b \in {Raw("k", SeedBytes), Raw("k", 33)}}
  \cup
  {Encoded(c \o SK, b) : c \in SupportedCurves, b \in {Raw("k", SeedBytes), Raw("k", SecretKeyBytes)}}
  \cup
  {Encoded(ED \o SK, Raw("k", 33))}

EncryptedKeys ==
  {Encoded(c \o <<"e">> \o SK, Sealed(Raw("k", SeedBytes), <<"a">>)) : c \in SupportedCurves}
  \cup
  {Encoded(ED \o <<"e">> \o SK, Sealed(Raw("k", SeedBytes), <<"b">>)),
   Encoded(ED \o <<"e">> \o SK, Raw("k", 56)),
   Encoded(ED \o <<"e", "x", "x">>, Raw("k", 56))}

MalformedKeys ==
  {Corrupt(h, l) : h \in {ED \o SK, <<"x", "x">> \o SK}, l \in {53, 54}}
  \cup
  {Encoded(ED \o <<"x", "x">>, Raw("k", SeedBytes)),
   Encoded(P2 \o SK, Raw("k", 20)),
   Encoded(P2 \o PK, Raw("k", 20)),
   Corrupt(ED \o <<"e">> \o SK, 53),
   Corrupt(ED \o <<"e">> \o SK, 88),
   Corrupt(<<>>, 0)}

Keys == PlainKeys \cup EncryptedKeys \cup MalformedKeys

\* Hex messages: texts of at most MaxMsgBytes two-digit bytes.
HexBytes == {<<"0", "a">>, <<"a", "0">>}

RECURSIVE HexStrings(_)
HexStrings(n) ==
  IF n = 0 THEN {<<>>}
  ELSE HexStrings(n - 1) \cup
       {p \o h : p \in HexBytes, h \in {g \in HexStrings(n - 1) : Len(g) = 2 * (n - 1)}}

Messages == HexStrings(MaxMsgBytes)
Watermarks == {Undefined, Some(Lit(<<3>>))}

\* JavaScript truthiness of an optional string.
Truthy(s) == s # Undefined /\ s[1] # <<>>

(***************************************************************************)
(* Key.initialize, lines 102-182.                                          *)
(***************************************************************************)
\* The fields initialize assigns, how it ended, and how often it called ready.
Fresh ==
  [curve |-> Undefined, _isSecret |-> Undefined, _publicKey |-> Undefined,
   _secretKey |-> Undefined, error |-> "none", readyCalls |-> 0]

Throw(st, kind) == [st EXCEPT !.error = kind]
CallReady(st) == [st EXCEPT !.readyCalls = @ + 1]

Mnemonic == <<"m", "n", "e", "m", "o", "n", "i", "c">>

fundraiserSalt(email, passphrase) ==
  normalizeNFKD(textDecode(textEncode(email \o passphrase)))

fundraiserSeed(key, email, passphrase) ==
  pbkdf2Mnemonic(key, Mnemonic \o fundraiserSalt(email, passphrase),
                 FundraiserIterations, FundraiserKeyLen)

FundraiserPath(st, key, passphrase, email) ==
  IF ~Truthy(passphrase) THEN Throw(st, "MissingPassphrase")
  ELSE LET seed == fundraiserSeed(key, email[1], passphrase[1])
           kp == crypto_sign_seed_keypair(Some(slice(seed, 0, SeedBytes))).value[1]
       IN  CallReady([st EXCEPT !._publicKey = Some(kp.publicKey),
                                !._secretKey = Some(kp.privateKey),
                                !.curve = Some(ED),
                                !._isSecret = Some(TRUE)])

curveOf(key) == strSlice(key, 0, 2)
\* A check of the shape of the curve tag only.
curveSupported_AnyTwoChars(curve) == Len(curve) = 2
curveSupported(curve) == curve \in SupportedCurves
\* A check of the upper limit only.
lengthValid_AtMost98(key) == key.len <= 98
lengthValid(key) == key.len \in ValidKeyLengths
isEncrypted(key) == strSlice(key, 2, 3) = <<"e">>
publicOrSecretOf(key) ==
  IF isEncrypted(key) THEN strSlice(key, 3, 5) ELSE strSlice(key, 2, 4)
tagValid(publicOrSecret) == publicOrSecret \in KeyTags

decodeKey(key, curve, encrypted, isSecret) ==
  IF isSecret
    THEN b58cdecode(key, prefixOf(curve \o (IF encrypted THEN <<"e">> ELSE <<>>) \o SK))
    ELSE b58cdecode(key, prefixOf(curve \o PK))

\* A check for an absent passphrase that lets the empty string through.
passphraseMissing_OnlyUndefined(passphrase) == passphrase = Undefined

passphraseMissing(passphrase) == ~Truthy(passphrase)

\* Decryption that strips the salt and the tag without authenticating.
decryptKey_Unauthenticated(key, passphrase) ==
  Ok(sliceFrom(key, SaltBytes + MacBytes))

decryptKey(key, passphrase) ==
  LET salt == slice(key, 0, SaltBytes)
      encryptedSk == sliceFrom(key, SaltBytes)
      encryptionKey == pbkdf2Sync(passphrase, salt, EncryptionIterations, EncryptionKeyLen)
  IN  crypto_secretbox_open_easy(encryptedSk, Zeros(NonceBytes), encryptionKey)

\* Storing a public key without clearing the secret field.
storePublic_KeepsSecret(st, key) ==
  [st EXCEPT !._publicKey = Some(key), !._secretKey = Some(key)]

storePublic(st, key) ==
  [st EXCEPT !._publicKey = Some(key), !._secretKey = Undefined]

\* Seed expansion that does not store the expanded secret.
deriveEd_KeepsSeed(st, key) ==
  IF BufLen(key) = SecretKeyBytes
    THEN [st EXCEPT !._publicKey = Some(sliceFrom(key, SeedBytes))]
    ELSE LET kp == crypto_sign_seed_keypair(Some(key))
         IN  IF ~kp.ok THEN Throw(st, kp.error)
             ELSE [st EXCEPT !._publicKey = Some(kp.value[1].publicKey)]

deriveEd(st, key) ==
  IF BufLen(key) = SecretKeyBytes
    THEN [st EXCEPT !._publicKey = Some(sliceFrom(key, SeedBytes))]
    ELSE LET kp == crypto_sign_seed_keypair(Some(key))
         IN  IF ~kp.ok THEN Throw(st, kp.error)
             ELSE [st EXCEPT !._publicKey = Some(kp.value[1].publicKey),
                             !._secretKey = Some(kp.value[1].privateKey)]

deriveSp(st, key) ==
  LET pk == publicKeyCreate(key)
  IN  IF ~pk.ok THEN Throw(st, pk.error)
      ELSE [st EXCEPT !._publicKey = Some(pk.value[1])]

\* A curve dispatch without the p2 arm.
deriveSecret_NoP2Arm(st, key) ==
  LET st1 == [st EXCEPT !._secretKey = Some(key)]
  IN  IF st.curve = Some(ED) THEN deriveEd(st1, key)
      ELSE IF st.curve = Some(SP) THEN deriveSp(st1, key)
      ELSE Throw(st1, "InvalidKey")

deriveSecret(st, key) ==
  LET st1 == [st EXCEPT !._secretKey = Some(key)]
  IN  IF st.curve = Some(ED) THEN deriveEd(st1, key)
      ELSE IF st.curve = Some(SP) THEN deriveSp(st1, key)
      ELSE IF st.curve = Some(P2) THEN Throw(st1, "UnsupportedCurve")
      ELSE Throw(st1, "InvalidKey")

\* Calling ready() whether or not the derivation threw.
derive_AlwaysReady(st, key) ==
  CallReady(IF st._isSecret = Some(FALSE) THEN storePublic(st, key)
            ELSE deriveSecret(st, key))

derive(st, key) ==
  LET st1 == IF st._isSecret = Some(FALSE) THEN storePublic(st, key)
             ELSE deriveSecret(st, key)
  IN  IF st1.error # "none" THEN st1 ELSE CallReady(st1)

EncodedKeyPath(st, key, passphrase) ==
  LET curve == curveOf(key)
      st1 == [st EXCEPT !.curve = Some(curve)]
      encrypted == isEncrypted(key)
      publicOrSecret == publicOrSecretOf(key)
      isSecret == publicOrSecret = SK
      st2 == [st1 EXCEPT !._isSecret = Some(isSecret)]
      decoded == decodeKey(key, curve, encrypted, isSecret)
      opened == IF encrypted THEN decryptKey(decoded.value[1], passphrase[1])
                ELSE Ok(decoded.value[1])
  IN  IF ~curveSupported(curve) THEN Throw(st1, "InvalidCurvePrefix")
      ELSE IF ~lengthValid(key) THEN Throw(st1, "InvalidKeyLength")
      ELSE IF ~tagValid(publicOrSecret) THEN Throw(st1, "InvalidKeyTag")
      ELSE IF ~decoded.ok THEN Throw(st2, decoded.error)
      ELSE IF encrypted /\ passphraseMissing(passphrase) THEN Throw(st2, "MissingPassphrase")
      ELSE IF ~opened.ok THEN Throw(st2, opened.error)
      ELSE derive(st2, opened.value[1])

\* A branch test that takes an empty email for an email.
takesFundraiserPath_AnyDefined(email) == email # Undefined
takesFundraiserPath(email) == Truthy(email)

initialize(key, passphrase, email) ==
  IF takesFundraiserPath(email) THEN FundraiserPath(Fresh, key, passphrase, email)
  ELSE EncodedKeyPath(Fresh, key, passphrase)

(***************************************************************************)
(* The Key object.                                                         *)
(***************************************************************************)
VARIABLES
  key, passphrase, email,   \* the constructor's arguments
  pc,                       \* where initialize is: "await", "returned", "threw"
  initError,                \* the error initialize threw, or "none"
  ready,                    \* the promise this.ready: "pending", "resolved", "rejected"
  readyCalls,               \* how often the resolve callback was invoked
  curve, _isSecret, _publicKey, _secretKey,
  _isLedger, _ledgerPath, _ledgerCurve,
  call,                     \* the last method call and its arguments
  result                    \* what that call returned or threw

keyVars == <<curve, _isSecret, _publicKey, _secretKey>>
ledgerVars == <<_isLedger, _ledgerPath, _ledgerCurve>>
initVars == <<key, passphrase, email, pc, initError, ready, readyCalls>>
vars == <<key, passphrase, email, pc, initError, ready, readyCalls,
          curve, _isSecret, _publicKey, _secretKey,
          _isLedger, _ledgerPath, _ledgerCurve, call, result>>

NoCall == [op |-> "none", bytes |-> Undefined, watermark |-> Undefined, signature |-> Undefined]
NoResult == [ok |-> TRUE, value |-> Undefined, error |-> "none"]

\* new Key(key, passphrase, email), lines 28-35: the ledger defaults are set,
\* the promise is created and initialize has run up to `await sodium.ready`.
Init ==
  /\ key \in Keys
  /\ passphrase \in Passphrases
  /\ email \in Emails
  /\ pc = "await"
  /\ initError = "none"
  /\ ready = "pending"
  /\ readyCalls = 0
  /\ curve = Undefined
  /\ _isSecret = Undefined
  /\ _publicKey = Undefined
  /\ _secretKey = Undefined
  /\ _isLedger = FALSE
  /\ _ledgerPath = DefaultLedgerPath
  /\ _ledgerCurve = DefaultLedgerCurve
  /\ call = NoCall
  /\ result = NoResult

\* What the promise this.ready becomes when initialize ends: the executor
\* passes only `resolve`, and the promise initialize returns is dropped.
settleReady(current, outcome) ==
  IF outcome.readyCalls > 0 /\ current = "pending" THEN "resolved" ELSE current

\* initialize resumes after `await sodium.ready` and runs to its end.
Initialize ==
  /\ pc = "await"
  /\ LET outcome == initialize(key, passphrase, email)
     IN  /\ curve' = outcome.curve
         /\ _isSecret' = outcome._isSecret
         /\ _publicKey' = outcome._publicKey
         /\ _secretKey' = outcome._secretKey
         /\ initError' = outcome.error
         /\ readyCalls' = readyCalls + outcome.readyCalls
         /\ pc' = IF outcome.error = "none" THEN "returned" ELSE "threw"
         /\ ready' = settleReady(ready, outcome)
  /\ UNCHANGED <<key, passphrase, email, ledgerVars, call, result>>

(***************************************************************************)
(* Accessors, lines 37-100.                                                *)
(***************************************************************************)
\* `${this.curve}` in a template string.
curveText(c) == IF c = Undefined THEN <<"undefined">> ELSE c[1]

publicKey(c, pk) == b58cencode(pk, prefixOf(curveText(c) \o PK))

secretKeyMissing(sk) == sk = Undefined

\* secretKey without its guard and re-derivation.
secretKey_NoGuard(c, sk) == b58cencode(sk, prefixOf(curveText(c) \o SK))

secretKey(c, sk) ==
  IF secretKeyMissing(sk) THEN Err("NoSecretKey")
  ELSE IF c = Some(ED)
    THEN LET kp == crypto_sign_seed_keypair(Some(slice(sk[1], 0, SeedBytes)))
         IN  IF ~kp.ok THEN Err(kp.error)
             ELSE b58cencode(Some(kp.value[1].privateKey), prefixOf(curveText(c) \o SK))
    ELSE b58cencode(sk, prefixOf(curveText(c) \o SK))

prefixMap(c) ==
  IF c = Some(ED) THEN prefixOf(<<"t", "z", "1">>)
  ELSE IF c = Some(SP) THEN prefixOf(<<"t", "z", "2">>)
  ELSE IF c = Some(P2) THEN prefixOf(<<"t", "z", "3">>)
  ELSE Undefined

publicKeyHash(c, pk) ==
  LET h == crypto_generichash(PkhHashLen, pk)
  IN  IF ~h.ok THEN Err(h.error) ELSE b58cencode(h.value, prefixMap(c))

LedgerPaths == {DefaultLedgerPath, "44'/1729'/1'/0'"}
LedgerCurves == {DefaultLedgerCurve, 1}

Called(op) == [NoCall EXCEPT !.op = op]

PublicKey ==
  /\ call' = Called("publicKey")
  /\ result' = publicKey(curve, _publicKey)
  /\ UNCHANGED <<initVars, keyVars, ledgerVars>>

\* secretKey() that writes the re-derived secret back into the Key.
SecretKey_StoresDerived ==
  /\ call' = Called("secretKey")
  /\ result' = secretKey(curve, _secretKey)
  /\ _secretKey' = IF result'.ok THEN Some(result'.value[1].bytes) ELSE _secretKey
  /\ UNCHANGED <<initVars, curve, _isSecret, _publicKey, ledgerVars>>

SecretKey ==
  /\ call' = Called("secretKey")
  /\ result' = secretKey(curve, _secretKey)
  /\ UNCHANGED <<initVars, keyVars, ledgerVars>>

PublicKeyHash ==
  /\ call' = Called("publicKeyHash")
  /\ result' = publicKeyHash(curve, _publicKey)
  /\ UNCHANGED <<initVars, keyVars, ledgerVars>>

SetIsLedger ==
  /\ \E value \in BOOLEAN : _isLedger' = value
  /\ UNCHANGED <<initVars, keyVars, _ledgerPath, _ledgerCurve, call, result>>

SetLedgerPath ==
  /\ \E value \in LedgerPaths : _ledgerPath' = value
  /\ UNCHANGED <<initVars, keyVars, _isLedger, _ledgerCurve, call, result>>

SetLedgerCurve ==
  /\ \E value \in LedgerCurves : _ledgerCurve' = value
  /\ UNCHANGED <<initVars, keyVars, _isLedger, _ledgerPath, call, result>>

(***************************************************************************)
(* sign and verify, lines 191-240.                                         *)
(***************************************************************************)
\* sign without the curve dispatch.
sign_AnyCurve(c, sk, bytes, watermark) ==
  LET bb0 == hex2buf(bytes)
      bb == IF watermark # Undefined THEN mergebuf(watermark[1], bb0) ELSE bb0
      sig == crypto_sign_detached(crypto_generichash(SignHashLen, Some(bb)).value[1], sk)
  IN  IF ~sig.ok THEN Err(sig.error)
      ELSE Ok([bytes |-> bytes,
               sig |-> b58cencode(sig.value, prefixOf(<<"s", "i", "g">>)).value[1],
               edsig |-> b58cencode(sig.value, prefixOf(ED \o <<"s", "i", "g">>)).value[1],
               sbytes |-> <<bytes, buf2hex(sig.value[1])>>])

sign(c, sk, bytes, watermark) ==
  LET bb0 == hex2buf(bytes)
      bb == IF watermark # Undefined THEN mergebuf(watermark[1], bb0) ELSE bb0
  IN  IF c = Some(ED)
        THEN LET sig == crypto_sign_detached(crypto_generichash(SignHashLen, Some(bb)).value[1], sk)
             IN  IF ~sig.ok THEN Err(sig.error)
                 ELSE Ok([bytes |-> bytes,
                          sig |-> b58cencode(sig.value, prefixOf(<<"s", "i", "g">>)).value[1],
                          edsig |-> b58cencode(sig.value, prefixOf(ED \o <<"s", "i", "g">>)).value[1],
                          sbytes |-> <<bytes, buf2hex(sig.value[1])>>])
        ELSE Err("UnsupportedCurve")

signatureIsGeneric(signature) == strSlice(signature, 0, 3) = <<"s", "i", "g">>

\* verify without the exemption of the generic sig-prefixed form.
verify_NoGenericForm(c, pk, bytes, signature) ==
  IF pk = Undefined THEN Err("MissingPublicKey")
  ELSE IF curveText(c) # strSlice(signature, 0, 2) THEN Err("CurveMismatch")
  ELSE IF c = Some(ED)
    THEN LET v == crypto_sign_verify_detached(from_string(signature), hex2buf(bytes), pk[1])
         IN  IF ~v.ok THEN Err("InvalidSignature") ELSE Ok(v.value[1])
    ELSE Err("UnsupportedCurve")

verify(c, pk, bytes, signature) ==
  IF pk = Undefined THEN Err("MissingPublicKey")
  ELSE IF ~signatureIsGeneric(signature) /\ curveText(c) # strSlice(signature, 0, 2)
    THEN Err("CurveMismatch")
  ELSE IF c = Some(ED)
    THEN LET digest == hex2buf(bytes)
             v == crypto_sign_verify_detached(from_string(signature), digest, pk[1])
         IN  IF ~v.ok THEN Err("InvalidSignature") ELSE Ok(v.value[1])
    ELSE Err("UnsupportedCurve")

\* Signature strings that are not produced by this Key.
OtherSignatures ==
  {[head |-> SP \o <<"s", "i", "g">>, len |-> 99, ok |-> TRUE, bytes |-> Raw("sig", EdSignatureBytes)],
   [head |-> <<"s", "i", "g">>, len |-> EdSignatureBytes, ok |-> FALSE, bytes |-> <<>>]}

\* The signature strings sign hands out for a message on the current Key.
SignedBy(bytes) ==
  UNION {LET r == sign(curve, _secretKey, bytes, w)
         IN  IF r.ok THEN {r.value[1].sig, r.value[1].edsig} ELSE {} : w \in Watermarks}

Sign ==
  \E bytes \in Messages, watermark \in Watermarks :
    /\ call' = [NoCall EXCEPT !.op = "sign", !.bytes = Some(bytes), !.watermark = watermark]
    /\ result' = sign(curve, _secretKey, bytes, watermark)
    /\ UNCHANGED <<initVars, keyVars, ledgerVars>>

Verify ==
  \E bytes \in Messages :
    \E signature \in OtherSignatures \cup SignedBy(bytes) \cup SignedBy(<<>>) :
      /\ call' = [NoCall EXCEPT !.op = "verify", !.bytes = Some(bytes),
                                !.signature = Some(signature)]
      /\ result' = verify(curve, _publicKey, bytes, signature)
      /\ UNCHANGED <<initVars, keyVars, ledgerVars>>

Next ==
  \/ Initialize
  \/ PublicKey
  \/ SecretKey
  \/ PublicKeyHash
  \/ SetIsLedger
  \/ SetLedgerPath
  \/ SetLedgerCurve
  \/ Sign
  \/ Verify

Spec == Init /\ [][Next]_vars

(***************************************************************************)
(* Properties.                                                             *)
(***************************************************************************)
InitDone == pc # "await"
InitFailed == pc = "threw"
IsReady == ready = "resolved"
NoEmail == email = Undefined \/ email = Some(<<>>)
NoPassphrase == passphrase = Undefined \/ passphrase = Some(<<>>)
KeyCurve == strSlice(key, 0, 2)

\* C1: whenever initialization has failed, the readiness signal `ready` is
\* rejected with that error instead of staying pending.  The end of
\* initialize is the last step that can settle `ready`, so the claim is
\* decided in the state in which initialize has thrown.
C1_FailedInitRejectsReady == InitFailed => ready = "rejected"

\* C2: no reachable state has curve = p2 together with readiness completed
\* successfully.
C2_P2NeverReady == ~(curve = Some(P2) /\ IsReady)

\* C3 as stated: a string whose first two characters are not in {ed, sp, p2}
\* fails with InvalidCurvePrefix for every passphrase and email argument.
C3_BadPrefixAnyEmail ==
  (InitDone /\ KeyCurve \notin SupportedCurves)
    => (InitFailed /\ initError = "InvalidCurvePrefix")

\* C3 amended: when no email is supplied, a string whose first two characters
\* are not in {ed, sp, p2} fails with InvalidCurvePrefix, for every passphrase
\* and every length.
C3_BadPrefixRejected ==
  (InitDone /\ NoEmail /\ KeyCurve \notin SupportedCurves)
    => (InitFailed /\ initError = "InvalidCurvePrefix" /\ ~IsReady)

C3_Witness ==
  /\ InitFailed /\ NoEmail /\ KeyCurve = <<"x", "x">> /\ key.len = 54
  /\ passphrase = Some(<<"a">>)
  /\ initError = "InvalidCurvePrefix"

\* C4 as stated: a string whose length is not in {54, 55, 88, 98} fails with
\* InvalidKeyLength, whatever its first characters are.
C4_BadLengthAnyPrefix ==
  (InitDone /\ key.len \notin {54, 55, 88, 98})
    => (InitFailed /\ initError = "InvalidKeyLength")

\* C4 amended: when no email is supplied and the first two characters are in
\* {ed, sp, p2}, a string whose length is not in {54, 55, 88, 98} fails with
\* InvalidKeyLength and with no other error kind.
C4_BadLengthRejected ==
  (InitDone /\ NoEmail /\ KeyCurve \in SupportedCurves /\ key.len \notin {54, 55, 88, 98})
    => (InitFailed /\ initError = "InvalidKeyLength" /\ ~IsReady)

C4_Witness ==
  /\ InitFailed /\ NoEmail /\ KeyCurve = P2 /\ key.ok /\ key.len = 38
  /\ initError = "InvalidKeyLength"

\* C5: on a Ready ed Key holding a secret key, verify(m, sign(m).sig) is
\* accepted for every even-length hex message m signed with no watermark.
C5_SignVerifyRoundTrip ==
  (/\ call.op = "verify"
   /\ IsReady /\ curve = Some(ED) /\ _secretKey # Undefined
   /\ sign(curve, _secretKey, call.bytes[1], Undefined).ok
   /\ call.signature[1] = sign(curve, _secretKey, call.bytes[1], Undefined).value[1].sig)
    => (result.ok /\ result.value = Some(TRUE))

\* The credential is an encrypted secret key: a supported curve, the
\* encrypted secret-key tag, a verified checksum.
EncryptedSecretCredential ==
  /\ key.ok
  /\ \E c \in {ED, SP, P2} : key.head = c \o <<"e", "s", "k">>
  /\ key.len = 88

\* The credential's ciphertext was sealed under the passphrase p.
SealedUnder(p) == key.bytes = Sealed(Raw("k", SeedBytes), p)

\* C6: an encrypted secret-key credential supplied with a passphrase under
\* which authenticated decryption fails makes initialization fail with
\* DecryptionFailed; the Key never becomes Ready and neither publicKeyBytes
\* nor secretKeyBytes is populated.
C6_WrongPassphraseRejected ==
  (/\ InitDone /\ NoEmail /\ EncryptedSecretCredential
   /\ ~NoPassphrase /\ ~SealedUnder(passphrase[1]))
    => (/\ InitFailed /\ initError = "DecryptionFailed" /\ ~IsReady
        /\ _publicKey = Undefined /\ _secretKey = Undefined)

C6_Witness ==
  /\ InitFailed /\ NoEmail /\ EncryptedSecretCredential
  /\ SealedUnder(<<"b">>) /\ passphrase = Some(<<"a">>)
  /\ initError = "DecryptionFailed"

\* C7 as stated: a credential classified as encrypted (character at offset 2
\* is 'e') and supplied with no passphrase fails with MissingPassphrase and
\* never reaches Ready.
C7_EncryptedNoPassphrase ==
  (/\ InitDone /\ NoEmail
   /\ KeyCurve \in SupportedCurves /\ key.len \in {54, 55, 88, 98}
   /\ strSlice(key, 2, 3) = <<"e">>
   /\ NoPassphrase)
    => (InitFailed /\ initError = "MissingPassphrase" /\ ~IsReady)

\* C7 amended: a credential classified as encrypted whose type tag is pk or
\* sk and whose base58check decoding succeeds, supplied with no passphrase
\* (absent or empty), fails with MissingPassphrase and never reaches Ready.
C7_DecodedEncryptedNoPassphrase ==
  (/\ InitDone /\ NoEmail
   /\ KeyCurve \in SupportedCurves /\ key.len \in {54, 55, 88, 98}
   /\ strSlice(key, 2, 3) = <<"e">>
   /\ strSlice(key, 3, 5) \in {PK, SK}
   /\ key.ok /\ key.head = KeyCurve \o strSlice(key, 2, 5)
   /\ NoPassphrase)
    => (InitFailed /\ initError = "MissingPassphrase" /\ ~IsReady)

C7_Witness ==
  /\ InitFailed /\ NoEmail /\ EncryptedSecretCredential /\ SealedUnder(<<"a">>)
  /\ passphrase = Some(<<>>)
  /\ initError = "MissingPassphrase"

\* The credential is a public key: type tag pk at offset 2.
PublicCredential == strSlice(key, 2, 4) = PK

\* C8: secretKey() fails with NoSecretKey in every state in which
\* secretKeyBytes is absent; on a Ready Key built from a pk credential it
\* never returns a string.
C8_NoSecretKey ==
  call.op = "secretKey" =>
    /\ (_secretKey = Undefined => result = Err("NoSecretKey"))
    /\ ((IsReady /\ NoEmail /\ PublicCredential) => result = Err("NoSecretKey"))

C8_Witness ==
  /\ call.op = "secretKey" /\ IsReady /\ NoEmail /\ PublicCredential
  /\ _publicKey # Undefined /\ _secretKey = Undefined
  /\ result = Err("NoSecretKey")

\* C9: publicKey() on a Key whose initialization has not completed, or has
\* failed, fails with IllegalState; it returns a string only when Ready.
C9_PublicKeyChecksReadiness ==
  call.op = "publicKey" =>
    /\ (~IsReady => result = Err("IllegalState"))
    /\ (result.ok => IsReady)

\* C10: in every state in which readiness has not completed successfully,
\* publicKeyBytes and secretKeyBytes are both unset.
C10_NoKeyBytesBeforeReady ==
  ~IsReady => (_publicKey = Undefined /\ _secretKey = Undefined)

\* C11: in every reachable state, if isSecret is false then secretKeyBytes
\* is not populated.
C11_PublicKeyHasNoSecret ==
  _isSecret # Some(TRUE) => _secretKey = Undefined

C11_Witness ==
  /\ IsReady /\ _isSecret = Some(FALSE)
  /\ _publicKey # Undefined /\ _secretKey = Undefined

\* C12: in every reachable state in which curve has been assigned, failed
\* states included, curve is one of {ed, sp, p2}, and curve = p2 occurs only
\* in a failed state.
C12_CurveAlwaysValid ==
  curve # Undefined =>
    /\ curve[1] \in {ED, SP, P2}
    /\ (curve = Some(P2) => InitFailed)

\* C13: the readiness callback is invoked at most once on every path of
\* initialize, exactly once on every path that completes derivation, and
\* never on a path that raised an error.
C13_ReadyCalledOnceOnSuccess ==
  /\ readyCalls <= 1
  /\ (pc = "await" => readyCalls = 0)
  /\ (pc = "returned" => readyCalls = 1 /\ IsReady)
  /\ (pc = "threw" => readyCalls = 0 /\ ~IsReady)

C13_Witness ==
  /\ pc = "returned" /\ readyCalls = 1 /\ IsReady
  /\ NoEmail /\ curve = Some(SP) /\ _isSecret = Some(TRUE)

\* C14: after readiness has completed no accessor call, sign, verify or
\* ledger set changes curve, isSecret, publicKeyBytes or secretKeyBytes, and
\* a ledger setter changes only its own field.
C14_ReadyKeyImmutable ==
  [][/\ IsReady => (/\ curve' = curve /\ _isSecret' = _isSecret
                    /\ _publicKey' = _publicKey /\ _secretKey' = _secretKey)
     /\ _isLedger' # _isLedger =>
          UNCHANGED <<keyVars, _ledgerPath, _ledgerCurve, call, result>>
     /\ _ledgerPath' # _ledgerPath =>
          UNCHANGED <<keyVars, _isLedger, _ledgerCurve, call, result>>
     /\ _ledgerCurve' # _ledgerCurve =>
          UNCHANGED <<keyVars, _isLedger, _ledgerPath, call, result>>]_vars

\* A Ready ed Key whose stored secret differs from its re-derivation, after
\* secretKey() and a ledger setter have acted.
C14_Witness ==
  /\ IsReady /\ curve = Some(ED) /\ NoEmail
  /\ call.op = "secretKey" /\ result.ok
  /\ _secretKey = Some(key.bytes)
  /\ result.value[1].bytes # key.bytes
  /\ _isLedger /\ _ledgerPath = DefaultLedgerPath /\ _ledgerCurve = DefaultLedgerCurve

\* A step in which verify is called.
VerifyStep == call'.op = "verify" /\ <<call, result>>' # <<call, result>>

\* What the claim says verify does, in the order of its checks.
VerifyOutcomeAllowed(sig, r) ==
  IF _publicKey = Undefined THEN r = Err("MissingPublicKey")
  ELSE IF SubSeq(sig.head, 1, 3) # <<"s", "i", "g">> /\ curve # Some(SubSeq(sig.head, 1, 2))
    THEN r = Err("CurveMismatch")
  ELSE IF curve \in {Some(SP), Some(P2)} THEN r = Err("UnsupportedCurve")
  ELSE /\ curve = Some(ED)
       /\ r.error \in {"none", "InvalidSignature"}

\* C15: verify fails with MissingPublicKey first when no public key is
\* present, else with CurveMismatch for a signature that is neither
\* sig-prefixed nor prefixed with the Key's curve, else with UnsupportedCurve
\* on an sp or p2 Key; only on an ed Key is the primitive invoked.
C15_VerifyCheckOrder ==
  [][VerifyStep => VerifyOutcomeAllowed(call'.signature[1], result')]_vars

C15_Witness ==
  /\ call.op = "verify" /\ IsReady /\ curve = Some(SP) /\ _publicKey # Undefined
  /\ SubSeq(call.signature[1].head, 1, 3) = <<"s", "i", "g">>
  /\ result = Err("UnsupportedCurve")

\* C16: sign on a Key whose curve is sp or p2 fails with UnsupportedCurve
\* for every message and every watermark.
C16_SignUnsupportedCurve ==
  (call.op = "sign" /\ curve \in {Some(SP), Some(P2)})
    => result = Err("UnsupportedCurve")

C16_Witness ==
  /\ call.op = "sign" /\ IsReady /\ curve = Some(SP) /\ _secretKey # Undefined
  /\ call.watermark # Undefined /\ call.bytes # Some(<<>>)
  /\ result = Err("UnsupportedCurve")

\* The secret an ed secret-key credential decodes (and decrypts) to.
DecodedSecret ==
  IF strSlice(key, 2, 3) = <<"e">> THEN Raw("k", SeedBytes) ELSE key.bytes

EdSecretCredential ==
  /\ NoEmail
  /\ key.head \in {ED \o SK, ED \o <<"e">> \o SK}

\* C17: for an ed secret-key credential that reaches Ready, a 64-byte secret
\* is stored unchanged with its last 32 bytes as public key, a 32-byte secret
\* is replaced by its Ed25519 seed expansion; every Ready ed secret Key has
\* a 64-byte secretKeyBytes and a 32-byte publicKeyBytes.
C17_EdDerivation ==
  (IsReady /\ curve = Some(ED) /\ _isSecret = Some(TRUE)) =>
    /\ BufLen(_secretKey[1]) = 64
    /\ BufLen(_publicKey[1]) = 32
    /\ (EdSecretCredential /\ BufLen(DecodedSecret) = 64) =>
         /\ _secretKey = Some(DecodedSecret)
         /\ _publicKey = Some(Drop(DecodedSecret, 32))
    /\ (EdSecretCredential /\ BufLen(DecodedSecret) = 32) =>
         /\ _publicKey = Some(EdPub(DecodedSecret))
         /\ _secretKey = Some(DecodedSecret \o EdPub(DecodedSecret))

C17_Witness ==
  /\ IsReady /\ curve = Some(ED) /\ _isSecret = Some(TRUE)
  /\ EdSecretCredential /\ key.head = ED \o <<"e">> \o SK
  /\ BufLen(DecodedSecret) = 32
  /\ _secretKey = Some(DecodedSecret \o EdPub(DecodedSecret))

\* C18: with a non-empty email initialize takes the fundraiser path whatever
\* the key string is: it fails with MissingPassphrase without a passphrase
\* and otherwise reaches Ready with curve = ed, isSecret = true and both key
\* fields populated; with no email it takes the encoded-key path.
C18_BranchSelection ==
  InitDone =>
    /\ (~NoEmail /\ NoPassphrase) =>
         /\ InitFailed /\ initError = "MissingPassphrase"
         /\ curve = Undefined /\ _isSecret = Undefined
    /\ (~NoEmail /\ ~NoPassphrase) =>
         /\ IsReady /\ pc = "returned"
         /\ curve = Some(ED) /\ _isSecret = Some(TRUE)
         /\ _publicKey # Undefined /\ _secretKey # Undefined
         /\ Take(_secretKey[1], 32)[1].src.t = "pbkdf2m"
    /\ NoEmail => curve = Some(KeyCurve)

C18_Witness ==
  /\ IsReady /\ ~NoEmail /\ ~NoPassphrase
  /\ KeyCurve = P2 /\ key.len \notin {54, 55, 88, 98}
  /\ curve = Some(ED) /\ _isSecret = Some(TRUE)

\* C19: the final InvalidKey arm of the derivation dispatch is unreachable:
\* whenever control reaches the per-curve derivation the curve is one of ed,
\* sp or p2, and no execution of initialize fails with InvalidKey.
C19_InvalidKeyUnreachable ==
  /\ initError # "InvalidKey"
  /\ (_secretKey # Undefined => curve \in {Some(ED), Some(SP), Some(P2)})

C19_Witness ==
  /\ InitFailed /\ initError = "UnsupportedCurve"
  /\ curve = Some(P2) /\ _secretKey # Undefined

\* C20: sign() on a Ready ed Key that holds no secretKeyBytes fails fast
\* with a descriptive error kind before the signing primitive is invoked,
\* and never returns a signature record.
C20_SignChecksSecretKey ==
  (call.op = "sign" /\ IsReady /\ curve = Some(ED) /\ _secretKey = Undefined)
    => (~result.ok /\ result.error \notin {"PrimitiveError", "TypeError"})

====
